---- MODULE Spec2Model ----
\* Model of the simplechores Home Assistant integration:
\*   custom_components/simplechores/config_flow.py  (SimpleChoresFlow)
\*   custom_components/simplechores/coordinator.py  (BlueprintDataUpdateCoordinator)
\* The host framework drives both: it calls async_step_user on a flow when the
\* user starts a setup, and it calls _async_update_data on every poll.
EXTENDS Integers, Sequences, FiniteSets, TLC

\* ---------------------------------------------------------------- bounds
NumFlows == 2      \* flow instances the host has constructed
MaxSteps == 3      \* invocations of async_step_user in one behaviour
MaxPolls == 2      \* invocations of _async_update_data in one behaviour

\* ------------------------------------------------------- program constants
VERSION == 1

\* ------------------------------------------------------------ value space
Flows == 1..NumFlows
Keys  == {"name"}
Vals  == {"chores"}

\* A Python dict is the set of its <<key, value>> items (at most one per key).
Dicts == {d \in SUBSET (Keys \X Vals) :
             \A a \in d, b \in d : a[1] = b[1] => a = b}
EmptyDict == {}

\* The argument `_user_input: dict | None`.
NoneInput == [kind |-> "None", items |-> EmptyDict]
DictInput(d) == [kind |-> "dict", items |-> d]
UserInputs == {NoneInput} \cup {DictInput(d) : d \in Dicts}

\* States the config entry handed to the coordinator can be in.
RuntimeStates == {"no_runtime_data", "no_client", "client"}

VARIABLES
    flows,        \* flow -> [VERSION, unique_id, cur_step]
    entries,      \* config entries the host has created, in creation order
    stepLog,      \* one record per completed async_step_user call, with the
                  \* number of polls the host had made before it
    runtime,      \* state of coordinator.config_entry.runtime_data
    clientCalls,  \* calls made to config_entry.runtime_data.client
    pollLog       \* one record per completed _async_update_data call, with
                  \* the number of user steps the host had run before it

flowVars  == <<flows, entries, stepLog>>
coordVars == <<runtime, clientCalls, pollLog>>
vars      == <<flows, entries, stepLog, runtime, clientCalls, pollLog>>

\* ------------------------------------------------------------ config flow
\* A freshly constructed SimpleChoresFlow: class attribute VERSION, no unique
\* id, and the host about to run the "user" step.
NewFlow == [VERSION |-> VERSION, unique_id |-> "None", cur_step |-> "user"]

\* self.async_create_entry(title=..., data=...): the create-entry result.
async_create_entry(title, data) ==
    [type |-> "create_entry", title |-> title, data |-> data]

\* Mutant: the usual "show the form until the user submitted something" branch.
async_step_user_form(self, _user_input) ==
    [result      |-> IF _user_input.kind = "None"
                     THEN [type |-> "form", title |-> "", data |-> EmptyDict]
                     ELSE async_create_entry("Example Entry", EmptyDict),
     self        |-> self,
     _user_input |-> _user_input]

\* Mutant: the submitted input is stored as the entry's data.
async_step_user_data(self, _user_input) ==
    [result      |-> async_create_entry("Example Entry", _user_input.items),
     self        |-> self,
     _user_input |-> _user_input]

\* Mutant: the step consumes (clears) the dict it was handed.
async_step_user_clear(self, _user_input) ==
    [result      |-> async_create_entry("Example Entry", EmptyDict),
     self        |-> self,
     _user_input |-> IF _user_input.kind = "dict"
                     THEN DictInput(EmptyDict) ELSE _user_input]

\* Mutant: a single-instance guard that sets a unique id and aborts when an
\* entry already exists.
async_step_user_single(self, _user_input) ==
    [result      |-> IF entries # << >>
                     THEN [type |-> "abort", title |-> "", data |-> EmptyDict]
                     ELSE async_create_entry("Example Entry", EmptyDict),
     self        |-> [self EXCEPT !.unique_id = "simplechores"],
     _user_input |-> _user_input]

\* SimpleChoresFlow.async_step_user(self, _user_input): the returned result
\* together with the state of `self` and of the argument after the call.
async_step_user(self, _user_input) ==
    [result      |-> async_create_entry("Example Entry", EmptyDict),
     self        |-> self,
     _user_input |-> _user_input]

\* The host runs the user step of flow f with input i.  A create-entry result
\* finishes the flow and makes the host store one entry; a form keeps the flow
\* on its step; an abort ends it without an entry.
StepUser(f, i) ==
    /\ Len(stepLog) < MaxSteps
    /\ LET out == async_step_user(flows[f], i)
           res == out.result
       IN /\ flows' = [flows EXCEPT ![f] =
                 [out.self EXCEPT !.cur_step =
                     CASE res.type = "create_entry" -> "finished"
                       [] res.type = "abort"        -> "aborted"
                       [] OTHER                     -> @]]
          /\ entries' = IF res.type = "create_entry"
                        THEN Append(entries, [title     |-> res.title,
                                              data      |-> res.data,
                                              unique_id |-> out.self.unique_id])
                        ELSE entries
          /\ stepLog' = Append(stepLog, [flow       |-> f,
                                         pollsSeen  |-> Len(pollLog),
                                         input      |-> i,
                                         inputAfter |-> out._user_input,
                                         result     |-> res])
    /\ UNCHANGED coordVars

\* ------------------------------------------------------------ coordinator
\* Mutant: the fetch is done whenever a client is there.
_async_update_data_fetch(rt) ==
    IF rt = "client"
    THEN [kind |-> "return", value |-> "data", client_calls |-> 1]
    ELSE [kind |-> "return", value |-> "None", client_calls |-> 0]

\* Mutant: the stub refuses to run.
_async_update_data_raise(rt) ==
    [kind |-> "raise", value |-> "NotImplementedError", client_calls |-> 0]

\* Mutant: the poll reports whether the config flow has created an entry.
_async_update_data_shared(rt) ==
    [kind         |-> "return",
     value        |-> IF entries # << >> THEN "data" ELSE "None",
     client_calls |-> 0]

\* BlueprintDataUpdateCoordinator._async_update_data(self), with rt the state
\* of self.config_entry: the body is a docstring and a comment, so the call
\* falls off the end and returns None without touching the client.
_async_update_data(rt) ==
    [kind |-> "return", value |-> "None", client_calls |-> 0]

\* The host polls the coordinator once.
Poll ==
    /\ Len(pollLog) < MaxPolls
    /\ LET out == _async_update_data(runtime)
       IN /\ clientCalls' = clientCalls + out.client_calls
          /\ pollLog' = Append(pollLog, [runtime   |-> runtime,
                                         stepsSeen |-> Len(stepLog),
                                         kind      |-> out.kind,
                                         value     |-> out.value])
    /\ UNCHANGED <<runtime, flows, entries, stepLog>>

\* ---------------------------------------------------------- specification
Init ==
    /\ flows = [f \in Flows |-> NewFlow]
    /\ entries = << >>
    /\ stepLog = << >>
    /\ runtime \in RuntimeStates
    /\ clientCalls = 0
    /\ pollLog = << >>

Next ==
    \/ \E f \in Flows, i \in UserInputs : StepUser(f, i)
    \/ Poll

Spec == Init /\ [][Next]_vars

\* ------------------------------------------------------------ helpers
StepTaken == Len(stepLog') = Len(stepLog) + 1
PollTaken == Len(pollLog') = Len(pollLog) + 1
LastStep  == stepLog'[Len(stepLog')]
LastPoll  == pollLog'[Len(pollLog')]
ExampleResult ==
    [type |-> "create_entry", title |-> "Example Entry", data |-> EmptyDict]

\* ------------------------------------------------------------- properties

\* C1: whatever the input of async_step_user (None, the empty dict or a dict
\* with items), the returned result is a create-entry result titled
\* "Example Entry" with empty data.
C1_ResultIsExampleEntry ==
    \A k \in 1..Len(stepLog) :
        /\ stepLog[k].result.type = "create_entry"
        /\ stepLog[k].result.title = "Example Entry"
        /\ stepLog[k].result.data = EmptyDict

\* The step has run with no input, with the empty dict and with a dict that
\* carries an item.
C1_Witness ==
    /\ \E k \in 1..Len(stepLog) : stepLog[k].input = NoneInput
    /\ \E k \in 1..Len(stepLog) : stepLog[k].input = DictInput(EmptyDict)
    /\ \E k \in 1..Len(stepLog) :
           stepLog[k].input.kind = "dict" /\ stepLog[k].input.items # EmptyDict

\* C2: async_step_user never returns a form, an abort or an error, and a flow
\* is finished as soon as its user step has run once: a flow is either still
\* at its start with no step run, or finished.
C2_NoFailureBranch ==
    /\ \A k \in 1..Len(stepLog) :
           stepLog[k].result.type \notin {"form", "abort", "error"}
    /\ \A f \in Flows :
           IF \E k \in 1..Len(stepLog) : stepLog[k].flow = f
           THEN flows[f].cur_step = "finished"
           ELSE flows[f].cur_step = "user"

\* One flow has run its user step exactly once, with no input, and is
\* finished, while another flow has not started.
C2_Witness ==
    \E f \in Flows, g \in Flows :
        /\ Cardinality({k \in 1..Len(stepLog) : stepLog[k].flow = f}) = 1
        /\ \E k \in 1..Len(stepLog) :
               stepLog[k].flow = f /\ stepLog[k].input = NoneInput
        /\ flows[f].cur_step = "finished"
        /\ flows[g].cur_step = "user"

C4_StepFrame ==
    [][StepTaken =>
          /\ Len(entries') = Len(entries) + 1
          /\ SubSeq(entries', 1, Len(entries)) = entries
          /\ SubSeq(stepLog', 1, Len(stepLog)) = stepLog
          /\ LastStep.inputAfter = LastStep.input
          /\ LastStep.result = ExampleResult
          /\ \A f \in Flows :
                 /\ flows'[f].VERSION = VERSION
                 /\ flows'[f].VERSION = flows[f].VERSION
                 /\ flows'[f].unique_id = flows[f].unique_id
                 /\ f # LastStep.flow => flows'[f] = flows[f]
          /\ UNCHANGED coordVars]_vars

\* A step has run with a dict that carries an item, after an earlier entry
\* had been created and after the coordinator had been polled.
C4_Witness ==
    /\ Len(entries) >= 2
    /\ \E k \in 2..Len(stepLog) :
           /\ stepLog[k].input.kind = "dict"
           /\ stepLog[k].input.items # EmptyDict
           /\ stepLog[k].pollsSeen >= 1

\* C5: no invocation of _async_update_data raises, however many polls the
\* host makes and whatever the state of the config entry.
C5_PollNeverRaises ==
    \A k \in 1..Len(pollLog) : pollLog[k].kind # "raise"

\* The coordinator has been polled at least twice with a config entry that
\* has no runtime data, the state in which a fetch would fail.
C5_Witness ==
    /\ Len(pollLog) >= 2
    /\ \A k \in 1..Len(pollLog) : pollLog[k].runtime = "no_runtime_data"

\* C6: the config flow and the coordinator share no state. In every
\* interleaving, a user step yields the "Example Entry" result with empty data
\* and leaves the coordinator's state alone, whatever polls preceded it; a poll
\* returns None and leaves the flows, the entries and the step results alone,
\* whatever user steps preceded it.
C6_Independent ==
    [][/\ StepTaken =>
             /\ LastStep.result = ExampleResult
             /\ UNCHANGED coordVars
       /\ PollTaken =>
             /\ LastPoll.kind = "return"
             /\ LastPoll.value = "None"
             /\ UNCHANGED flowVars]_vars

\* Steps and polls have been interleaved: a poll before any step, a step
\* after that poll, and a poll after that step.
C6_Witness ==
    /\ Len(pollLog) >= 2
    /\ pollLog[1].stepsSeen = 0
    /\ \E k \in 1..Len(stepLog) : stepLog[k].pollsSeen = 1
    /\ pollLog[2].stepsSeen >= 1

\* C7: there is no single-instance guard: every invocation of the user step
\* has produced one entry, all entries carry the title "Example Entry", empty
\* data and no unique id, no invocation was aborted, and no flow has a unique
\* id.
C7_NoSingleInstanceGuard ==
    /\ Len(entries) = Len(stepLog)
    /\ \A k \in 1..Len(entries) :
           entries[k] = [title |-> "Example Entry", data |-> EmptyDict,
                         unique_id |-> "None"]
    /\ \A k \in 1..Len(stepLog) : stepLog[k].result.type # "abort"
    /\ \A f \in Flows : flows[f].unique_id = "None"

\* Three entries exist, two of them created by the same flow and one by
\* another flow.
C7_Witness ==
    /\ Len(entries) >= 3
    /\ \E j \in 1..Len(stepLog), k \in 1..Len(stepLog) :
           j # k /\ stepLog[j].flow = stepLog[k].flow
    /\ \E j \in 1..Len(stepLog), k \in 1..Len(stepLog) :
           stepLog[j].flow # stepLog[k].flow

====
